---- MODULE Spec2Model ----
(***************************************************************************)
(* SitePeek backend: the WebsiteExtractor (utils/extractor.py), the        *)
(* FileDownloader (utils/downloader.py) and the three request handlers of  *)
(* main.py (analyze, download, download-all).                              *)
(*                                                                         *)
(* Python strings are sequences of one-character strings, so that split,   *)
(* strip, endswith, urlparse and urljoin are computed as the code computes *)
(* them.                                                                   *)
(***************************************************************************)
EXTENDS Integers, Sequences, FiniteSets, TLC

(***************************************************************************)
(* Python str operations                                                   *)
(***************************************************************************)
UpperCase == <<"A","B","C","D","E","F","G","H","I","J","K","L","M",
               "N","O","P","Q","R","S","T","U","V","W","X","Y","Z">>

LowerCase == <<"a","b","c","d","e","f","g","h","i","j","k","l","m",
               "n","o","p","q","r","s","t","u","v","w","x","y","z">>

Digits == <<"0","1","2","3","4","5","6","7","8","9">>

Range(s) == { s[i] : i \in DOMAIN s }

\* str.lower() on one character
LowerCh(c) ==
    IF \E i \in DOMAIN UpperCase : UpperCase[i] = c
    THEN LowerCase[CHOOSE i \in DOMAIN UpperCase : UpperCase[i] = c]
    ELSE c

\* str.lower()
Lower(s) == [i \in DOMAIN s |-> LowerCh(s[i])]

\* s[a:b] with 1-based inclusive bounds; empty when a > b
Slice(s, a, b) == IF a > b THEN <<>> ELSE SubSeq(s, a, b)

\* str.endswith(suf)
EndsWith(s, suf) ==
    /\ Len(suf) <= Len(s)
    /\ Slice(s, Len(s) - Len(suf) + 1, Len(s)) = suf

\* str.startswith(pre)
StartsWith(s, pre) ==
    /\ Len(pre) <= Len(s)
    /\ Slice(s, 1, Len(pre)) = pre

\* str.find(c) for a one-character c: the first index, 0 when absent
Find(s, c) ==
    IF \E i \in DOMAIN s : s[i] = c
    THEN CHOOSE i \in DOMAIN s : s[i] = c /\ \A j \in 1..(i-1) : s[j] # c
    ELSE 0

\* the first index of a character of the set cs, 0 when absent
FindAny(s, cs) ==
    IF \E i \in DOMAIN s : s[i] \in cs
    THEN CHOOSE i \in DOMAIN s : s[i] \in cs /\ \A j \in 1..(i-1) : s[j] \notin cs
    ELSE 0

\* str.split(c) for a one-character separator: never empty, keeps empty pieces
RECURSIVE Split(_, _)
Split(s, c) ==
    LET i == Find(s, c)
    IN  IF i = 0 THEN << s >>
        ELSE << Slice(s, 1, i - 1) >> \o Split(Slice(s, i + 1, Len(s)), c)

\* c.join(parts)
RECURSIVE Join(_, _)
Join(parts, c) ==
    IF Len(parts) = 0 THEN <<>>
    ELSE IF Len(parts) = 1 THEN parts[1]
    ELSE parts[1] \o << c >> \o Join(Tail(parts), c)

\* str.strip(chars): chars is the set of characters to strip
RECURSIVE LStrip(_, _)
LStrip(s, cs) == IF Len(s) > 0 /\ s[1] \in cs THEN LStrip(Tail(s), cs) ELSE s

RECURSIVE RStrip(_, _)
RStrip(s, cs) ==
    IF Len(s) > 0 /\ s[Len(s)] \in cs
    THEN RStrip(Slice(s, 1, Len(s) - 1), cs) ELSE s

Strip(s, cs) == RStrip(LStrip(s, cs), cs)

\* the characters \s matches and str.strip() strips
WhiteSpace == {" ", "\t", "\n", "\r", "\f"}

\* the ASCII characters from the space to the underscore, in code point order
AsciiLow ==
    <<" ","!","\"","#","$","%","&","'","(",")","*","+",",","-",".","/",
      "0","1","2","3","4","5","6","7","8","9",":",";","<","=",">","?",
      "@","A","B","C","D","E","F","G","H","I","J","K","L","M","N","O",
      "P","Q","R","S","T","U","V","W","X","Y","Z","[","\\","]","^","_">>

\* the ASCII characters from a to the tilde, in code point order
AsciiHigh ==
    <<"a","b","c","d","e","f","g","h","i","j","k","l","m","n","o",
      "p","q","r","s","t","u","v","w","x","y","z","{","|","}","~">>

\* ord(c), for the order sorted() puts strings in; control characters are
\* below the space
Ord(c) ==
    IF \E i \in DOMAIN AsciiLow : AsciiLow[i] = c
    THEN 31 + (CHOOSE i \in DOMAIN AsciiLow : AsciiLow[i] = c)
    ELSE IF \E i \in DOMAIN AsciiHigh : AsciiHigh[i] = c
    THEN 96 + (CHOOSE i \in DOMAIN AsciiHigh : AsciiHigh[i] = c)
    ELSE 9

\* a < b for Python strings
RECURSIVE StrLess(_, _)
StrLess(a, b) ==
    IF Len(b) = 0 THEN FALSE
    ELSE IF Len(a) = 0 THEN TRUE
    ELSE IF a[1] = b[1] THEN StrLess(Tail(a), Tail(b))
    ELSE Ord(a[1]) < Ord(b[1])

\* sorted(list(S)) for a set of strings
Sorted(S) ==
    [i \in 1..Cardinality(S) |->
        CHOOSE m \in S : Cardinality({ x \in S : StrLess(x, m) }) = i - 1]

\* parts[-1]
Last(parts) == parts[Len(parts)]

(***************************************************************************)
(* urllib.parse as the extractor uses it                                   *)
(***************************************************************************)
SchemeChars == Range(UpperCase) \cup Range(LowerCase) \cup Range(Digits)
                   \cup {"+", "-", "."}

\* urlsplit, last step: the record of the parts; bad is the ValueError
\* ("Invalid IPv6 URL") urlsplit raises for an unbalanced bracket in netloc
UrlParts(scheme, netloc, path, query, fragment) ==
    [scheme |-> scheme, netloc |-> netloc, path |-> path, query |-> query,
     fragment |-> fragment,
     bad |-> \/ ("[" \in Range(netloc) /\ "]" \notin Range(netloc))
             \/ ("]" \in Range(netloc) /\ "[" \notin Range(netloc))]

\* urlsplit: the query is what follows the first '?'
SplitQuery(scheme, netloc, rest, fragment) ==
    LET q == Find(rest, "?")
    IN  IF q = 0 THEN UrlParts(scheme, netloc, rest, <<>>, fragment)
        ELSE UrlParts(scheme, netloc, Slice(rest, 1, q - 1),
                      Slice(rest, q + 1, Len(rest)), fragment)

\* urlsplit: the fragment is what follows the first '#'
SplitFragment(scheme, netloc, rest) ==
    LET h == Find(rest, "#")
    IN  IF h = 0 THEN SplitQuery(scheme, netloc, rest, <<>>)
        ELSE SplitQuery(scheme, netloc, Slice(rest, 1, h - 1),
                        Slice(rest, h + 1, Len(rest)))

\* _splitnetloc: netloc ends before the first of '/', '?', '#'
SplitNetloc(scheme, after) ==
    LET d == FindAny(after, {"/", "?", "#"})
    IN  IF d = 0 THEN SplitFragment(scheme, after, <<>>)
        ELSE SplitFragment(scheme, Slice(after, 1, d - 1),
                           Slice(after, d, Len(after)))

\* urlsplit after the scheme: a netloc follows '//'
SplitAfterScheme(scheme, rest) ==
    IF StartsWith(rest, <<"/", "/">>)
    THEN SplitNetloc(scheme, Slice(rest, 3, Len(rest)))
    ELSE SplitFragment(scheme, <<>>, rest)

\* the index of the ':' that ends the scheme of url, 0 when it has none
SchemeEnd(url) ==
    LET i == Find(url, ":")
    IN  IF /\ i > 1
           /\ \A j \in 1..(i-1) : url[j] \in SchemeChars
           /\ url[1] \in Range(UpperCase) \cup Range(LowerCase)
        THEN i ELSE 0

\* urlparse(url): scheme, netloc, path, query, fragment
urlparse(url) ==
    LET i == SchemeEnd(url)
    IN  IF i = 0 THEN SplitAfterScheme(<<>>, url)
        ELSE SplitAfterScheme(Lower(Slice(url, 1, i - 1)),
                              Slice(url, i + 1, Len(url)))

\* urlunsplit
urlunparse(p) ==
    LET withNet == IF Len(p.netloc) > 0
                   THEN <<"/", "/">> \o p.netloc
                        \o (IF Len(p.path) > 0 /\ p.path[1] # "/"
                            THEN <<"/">> ELSE <<>>)
                        \o p.path
                   ELSE p.path
        withSch == IF Len(p.scheme) > 0 THEN p.scheme \o <<":">> \o withNet
                   ELSE withNet
        withQ   == IF Len(p.query) > 0 THEN withSch \o <<"?">> \o p.query
                   ELSE withSch
    IN  IF Len(p.fragment) > 0 THEN withQ \o <<"#">> \o p.fragment ELSE withQ

\* the dot-segment loop of urljoin
RECURSIVE ResolveSegments(_, _)
ResolveSegments(segments, acc) ==
    IF Len(segments) = 0 THEN acc
    ELSE LET seg == segments[1]
         IN  IF seg = <<".", ".">>
             THEN ResolveSegments(Tail(segments),
                                  Slice(acc, 1, Len(acc) - 1))
             ELSE IF seg = <<".">>
             THEN ResolveSegments(Tail(segments), acc)
             ELSE ResolveSegments(Tail(segments), Append(acc, seg))

\* filter(None, segments[1:-1]) of urljoin: the empty middle segments go
DropEmptyMiddle(segments) ==
    IF Len(segments) <= 2 THEN segments
    ELSE << segments[1] >>
         \o SelectSeq(Slice(segments, 2, Len(segments) - 1),
                      LAMBDA x : Len(x) > 0)
         \o << Last(segments) >>

\* urljoin: base_parts, the segments of the base path without its last one
BaseParts(bpath) ==
    LET parts == Split(bpath, "/")
    IN  IF Len(Last(parts)) # 0 THEN Slice(parts, 1, Len(parts) - 1) ELSE parts

\* urljoin: the path of the result from the segments
ResolvedPath(segments) ==
    LET resolved == ResolveSegments(segments, <<>>)
        joined   == Join(IF Last(segments) \in {<<".">>, <<".", ".">>}
                         THEN Append(resolved, <<>>) ELSE resolved, "/")
    IN  IF Len(joined) = 0 THEN <<"/">> ELSE joined

\* urljoin: the path of url resolved against the path of the base
JoinPath(bpath, path) ==
    IF path[1] = "/" THEN ResolvedPath(Split(path, "/"))
    ELSE ResolvedPath(DropEmptyMiddle(BaseParts(bpath) \o Split(path, "/")))

\* urljoin once base and url are parsed; scheme is that of url, or of the
\* base when url has none
JoinParsed(url, b, u, scheme) ==
    IF scheme # b.scheme
          \/ scheme \notin {<<>>, <<"h","t","t","p">>, <<"h","t","t","p","s">>}
    THEN url
    ELSE IF Len(u.netloc) > 0
    THEN urlunparse([u EXCEPT !.scheme = scheme])
    ELSE IF Len(u.path) = 0
    THEN urlunparse([u EXCEPT !.scheme = scheme, !.netloc = b.netloc,
                              !.path = b.path,
                              !.query = IF Len(u.query) = 0 THEN b.query
                                        ELSE u.query])
    ELSE urlunparse([u EXCEPT !.scheme = scheme, !.netloc = b.netloc,
                              !.path = JoinPath(b.path, u.path)])

\* urljoin with both arguments non-empty
JoinNonEmpty(url, b, u) ==
    [bad |-> b.bad \/ u.bad,
     val |-> JoinParsed(url, b, u,
                        IF Len(u.scheme) = 0 THEN b.scheme ELSE u.scheme)]

\* urllib.parse.urljoin(base, url): val is what it returns, bad tells the
\* ValueError of urlsplit
urljoin(base, url) ==
    IF Len(base) = 0 THEN [bad |-> FALSE, val |-> url]
    ELSE IF Len(url) = 0 THEN [bad |-> FALSE, val |-> base]
    ELSE JoinNonEmpty(url, urlparse(base), urlparse(url))

(***************************************************************************)
(* The extension tables of the extractor                                   *)
(***************************************************************************)
image_extensions ==
    { <<".","j","p","g">>,
      <<".","j","p","e","g">>,
      <<".","p","n","g">>,
      <<".","g","i","f">>,
      <<".","s","v","g">>,
      <<".","w","e","b","p">>,
      <<".","i","c","o">>,
      <<".","b","m","p">> }

other_extensions ==
    { <<".","p","d","f">>,
      <<".","d","o","c">>,
      <<".","d","o","c","x">>,
      <<".","x","l","s">>,
      <<".","x","l","s","x">>,
      <<".","z","i","p">>,
      <<".","w","o","f","f">>,
      <<".","w","o","f","f","2">>,
      <<".","t","t","f">>,
      <<".","e","o","t">>,
      <<".","o","t","f">>,
      <<".","m","p","4">>,
      <<".","w","e","b","m">>,
      <<".","m","p","3">>,
      <<".","w","a","v">>,
      <<".","o","g","g">> }

font_extensions ==
    { <<".","w","o","f","f">>,
      <<".","w","o","f","f","2">>,
      <<".","t","t","f">>,
      <<".","e","o","t">>,
      <<".","o","t","f">> }

\* any(s.lower().endswith(ext) for ext in exts)
HasExtension(s, exts) == \E ext \in exts : EndsWith(Lower(s), ext)

(***************************************************************************)
(* The parsed document (BeautifulSoup): a sequence of elements.  An        *)
(* element has a tag, the set of attribute names it carries, its rel       *)
(* tokens, its href, src and srcset values, and CSS text: the value of its *)
(* style attribute and, for a style element, its string.  CSS text is the  *)
(* sequence of the pieces the extractor's regular expressions match: k is  *)
(* the pattern (import, url, hex, rgb, rgba, hsl, font-family, font-face)  *)
(* and v the matched text (for import, url, hex, font-face: the group).    *)
(***************************************************************************)
Element(tag, has, rel, href, src, srcset, style, string) ==
    [tag |-> tag, has |-> has, rel |-> rel, href |-> href, src |-> src,
     srcset |-> srcset, style |-> style, string |-> string]

Css(k, v) == [k |-> k, v |-> v]

\* soup.find_all(tags, attr=True): the elements of the tags with the attribute
find_all(soup, tags, attr) ==
    SelectSeq(soup, LAMBDA e : e.tag \in tags /\ attr \in e.has)

\* soup.find_all(tag): the elements of the tag
find_all_tag(soup, tag) == SelectSeq(soup, LAMBDA e : e.tag = tag)

\* soup.find_all(attr=True): the elements of any tag with the attribute
find_all_attr(soup, attr) == SelectSeq(soup, LAMBDA e : attr \in e.has)

\* the v of the pieces of CSS text that pattern k matches (re.findall)
findall(k, css) == { css[i].v : i \in { j \in DOMAIN css : css[j].k = k } }

\* re.findall(r'([^\s,]+)', srcset): the maximal runs free of blanks and commas
RECURSIVE SrcsetTokens(_)
SrcsetTokens(s) ==
    LET seps == WhiteSpace \cup {","}
        t    == LStrip(s, seps)
        e    == FindAny(t, seps)
    IN  IF Len(t) = 0 THEN {}
        ELSE IF e = 0 THEN { t }
        ELSE { Slice(t, 1, e - 1) } \cup SrcsetTokens(Slice(t, e, Len(t)))

HttpPrefix == <<"h","t","t","p",":","/","/">>

HttpsPrefix == <<"h","t","t","p","s",":","/","/">>

\* re.findall(r'(https?://[^\s,]+)', srcset): leftmost matches, each as long
\* as it can be, the scan going on after each match
RECURSIVE SrcsetAbsolute(_)
SrcsetAbsolute(s) ==
    LET seps == WhiteSpace \cup {","}
        pre  == IF StartsWith(s, HttpsPrefix) THEN Len(HttpsPrefix)
                ELSE IF StartsWith(s, HttpPrefix) THEN Len(HttpPrefix)
                ELSE 0
        rest == Slice(s, pre + 1, Len(s))
        e    == FindAny(rest, seps)
        stop == IF e = 0 THEN Len(s) ELSE pre + e - 1
    IN  IF Len(s) = 0 THEN {}
        ELSE IF pre > 0 /\ stop > pre
        THEN { Slice(s, 1, stop) } \cup SrcsetAbsolute(Slice(s, stop + 1, Len(s)))
        ELSE SrcsetAbsolute(Tail(s))

(***************************************************************************)
(* WebsiteExtractor.  self is [url, soup, html_content]; soup and          *)
(* html_content are [none, val], none standing for Python's None.  An      *)
(* extraction returns [raised, urls]: raised is the exception that leaves  *)
(* it ("none" when it returns), urls the set it returns (as a list in      *)
(* some order, see ListOf).                                                *)
(***************************************************************************)
None == [none |-> TRUE, val |-> <<>>]

Some(v) == [none |-> FALSE, val |-> v]

Return(urls) == [raised |-> "none", urls |-> urls]

\* the outcome of the urljoin calls joins (a set of urljoin results), with
\* the URLs direct added as they are
Joined(joins, direct) ==
    IF \E j \in joins : j.bad
    THEN [raised |-> "ValueError", urls |-> {}]
    ELSE Return({ j.val : j \in joins } \cup direct)

\* the elements of a sequence, as a set
Elems(seq) == { seq[i] : i \in DOMAIN seq }

\* extract_css_files past its guard: the stylesheet links and the @import
\* references of the style elements
StylesheetUrls(self) ==
    LET soup    == self.soup.val
        links   == { e \in Elems(find_all_tag(soup, "link")) :
                         "stylesheet" \in e.rel }
        hrefs   == { e.href : e \in { l \in links : Len(l.href) > 0 } }
        imports == UNION { findall("import", e.string) :
                               e \in Elems(find_all_tag(soup, "style")) }
    IN  Joined({ urljoin(self.url, r) : r \in hrefs \cup imports }, {})

\* extract_css_files with its guard left out: None has no find_all
extract_css_files_unguarded(self) ==
    IF self.soup.none THEN [raised |-> "AttributeError", urls |-> {}]
    ELSE StylesheetUrls(self)

extract_css_files(self) ==
    IF self.soup.none THEN Return({}) ELSE StylesheetUrls(self)

extract_js_files(self) ==
    IF self.soup.none THEN Return({})
    ELSE LET soup == self.soup.val
             srcs == { e.src : e \in { s \in Elems(find_all(soup, {"script"}, "src")) :
                                           Len(s.src) > 0 } }
         IN  Joined({ urljoin(self.url, r) : r \in srcs }, {})

extract_images(self) ==
    IF self.soup.none THEN Return({})
    ELSE LET soup    == self.soup.val
             srcs    == { e.src : e \in { s \in Elems(find_all(soup, {"img"}, "src")) :
                                              Len(s.src) > 0 } }
             verbatim == UNION { SrcsetAbsolute(e.srcset) :
                                     e \in Elems(find_all(soup, {"img"}, "srcset")) }
             sources == UNION { SrcsetTokens(e.srcset) :
                                    e \in Elems(find_all(soup, {"source"}, "srcset")) }
             bgs     == UNION { findall("url", e.style) :
                                    e \in Elems(find_all_attr(soup, "style")) }
             plain   == { urljoin(self.url, r) : r \in srcs }
             byExt   == { urljoin(self.url, r) : r \in sources \cup bgs }
         IN  Joined(plain \cup { j \in byExt :
                                     j.bad \/ HasExtension(j.val, image_extensions) },
                    verbatim)

extract_other_files(self) ==
    IF self.soup.none THEN Return({})
    ELSE LET soup    == self.soup.val
             anchors == { e.href : e \in { a \in Elems(find_all(soup, {"a"}, "href")) :
                              /\ Len(a.href) > 0
                              /\ HasExtension(a.href, other_extensions) } }
             fonts   == { e.href : e \in { l \in Elems(find_all(soup, {"link"}, "href")) :
                              /\ Len(l.href) > 0
                              /\ HasExtension(l.href, font_extensions) } }
             videos  == { e.src : e \in { v \in Elems(find_all(soup, {"video", "source"}, "src")) :
                              Len(v.src) > 0 } }
             audios  == { e.src : e \in { v \in Elems(find_all(soup, {"audio", "source"}, "src")) :
                              Len(v.src) > 0 } }
         IN  Joined({ urljoin(self.url, r) :
                          r \in anchors \cup fonts \cup videos \cup audios }, {})

HexDigits == Range(Digits) \cup {"a","b","c","d","e","f","A","B","C","D","E","F"}

\* the clean-up loop left out: every collected string kept as it is
CleanColor_verbatim(color) == color

\* the clean-up loop of extract_colors, on one collected string
CleanColor(color) ==
    IF StartsWith(color, <<"#">>) THEN color
    ELSE IF Len(color) \in 3..6 /\ \A i \in DOMAIN color : color[i] \in HexDigits
    THEN <<"#">> \o color
    ELSE color

\* the function-notation colors (rgb, rgba, hsl) re.findall gives, verbatim
FunctionColors(css) ==
    findall("rgb", css) \cup findall("rgba", css) \cup findall("hsl", css)

\* extract_colors returns [raised, vals], vals the sorted list
extract_colors(self) ==
    IF self.soup.none THEN [raised |-> "none", vals |-> <<>>]
    ELSE LET soup   == self.soup.val
             inline == UNION { findall("hex", e.style) \cup FunctionColors(e.style) :
                                   e \in Elems(find_all_attr(soup, "style")) }
             block  == UNION { { <<"#">> \o c : c \in findall("hex", e.string) }
                                   \cup FunctionColors(e.string) :
                                   e \in Elems(find_all_tag(soup, "style")) }
         IN  [raised |-> "none",
              vals   |-> Sorted({ CleanColor(c) : c \in inline \cup block })]

\* font.strip().strip('"\'') for every font of family.split(','), the empty
\* ones dropped
FamilyNames(family) ==
    LET parts == Split(family, ",")
    IN  { n \in { Strip(Strip(parts[i], WhiteSpace), {"\"", "'"}) :
                      i \in DOMAIN parts } : Len(n) > 0 }

\* the values the font-family pattern matches in CSS text: a declaration
\* inside an @font-face block is a font-family declaration too
FamilyValues(css) == findall("font-family", css) \cup findall("font-face", css)

\* the group of the @font-face pattern for a declared value: one leading
\* quote skipped, then up to the first quote, semicolon or brace; stripped
FontFaceName(v) ==
    LET u == IF Len(v) > 0 /\ v[1] \in {"\"", "'"} THEN Tail(v) ELSE v
        e == FindAny(u, {"\"", "'", ";", "}"})
    IN  Strip(IF e = 0 THEN u ELSE Slice(u, 1, e - 1), WhiteSpace)

\* extract_fonts returns [raised, vals], vals the sorted list
extract_fonts(self) ==
    IF self.soup.none THEN [raised |-> "none", vals |-> <<>>]
    ELSE LET soup   == self.soup.val
             inline == UNION { FamilyNames(v) :
                                   v \in UNION { FamilyValues(e.style) :
                                       e \in Elems(find_all_attr(soup, "style")) } }
             block  == UNION { FamilyNames(v) :
                                   v \in UNION { FamilyValues(e.string) :
                                       e \in Elems(find_all_tag(soup, "style")) } }
             faces  == { n \in { FontFaceName(v) :
                                   v \in UNION { findall("font-face", e.string) :
                                       e \in Elems(find_all_tag(soup, "style")) } } :
                             Len(n) > 0 }
         IN  [raised |-> "none", vals |-> Sorted(inline \cup block \cup faces)]

(***************************************************************************)
(* build_file_structure.  The nested dict is the set of its entries, each  *)
(* [path, leaf, url]: path is the sequence of keys from the root, leaf     *)
(* tells a URL string (url) from a nested dict.                            *)
(***************************************************************************)
IsPrefix(p, q) == Len(p) <= Len(q) /\ Slice(q, 1, Len(p)) = p

Leaf(path, url) == [path |-> path, leaf |-> TRUE, url |-> url]

Dir(path) == [path |-> path, leaf |-> FALSE, url |-> <<>>]

\* part in current
HasKey(structure, current, part) ==
    \E n \in structure : n.path = Append(current, part)

\* isinstance(current[part], dict)
IsDict(structure, current, part) ==
    \E n \in structure : n.path = Append(current, part) /\ ~n.leaf

\* the key set with what the old value held beneath it left in place
SetKey_keeping(structure, node) == structure \cup { node }

\* current[part] = value: the old value of the key, with all below it, goes
SetKey(structure, node) ==
    { n \in structure : ~IsPrefix(node.path, n.path) } \cup { node }

\* the loop with current never moved into the directory
RECURSIVE WalkParts_flat(_, _, _, _, _)
WalkParts_flat(structure, current, parts, i, url) ==
    IF i > Len(parts) THEN structure
    ELSE IF i = Len(parts)
    THEN SetKey(structure, Leaf(Append(current, parts[i]), url))
    ELSE WalkParts_flat(IF HasKey(structure, current, parts[i]) THEN structure
                        ELSE SetKey(structure, Dir(Append(current, parts[i]))),
                        current, parts, i + 1, url)

\* the loop over enumerate(parts), from part i on, current the dict reached
RECURSIVE WalkParts(_, _, _, _, _)
WalkParts(structure, current, parts, i, url) ==
    IF i > Len(parts) THEN structure
    ELSE IF i = Len(parts)
    THEN SetKey(structure, Leaf(Append(current, parts[i]), url))
    ELSE LET made == IF HasKey(structure, current, parts[i]) THEN structure
                     ELSE SetKey(structure, Dir(Append(current, parts[i])))
             next == IF IsDict(made, current, parts[i])
                     THEN Append(current, parts[i]) ELSE current
         IN  WalkParts(made, next, parts, i + 1, url)

\* the body of the loop over file_urls, for one url
InsertUrl(structure, url) ==
    LET parsed == urlparse(url)
        path   == Strip(parsed.path, {"/"})
    IN  IF parsed.bad THEN structure
        ELSE IF Len(path) = 0 THEN structure
        ELSE WalkParts(structure, <<>>, Split(path, "/"), 1, url)

RECURSIVE build_file_structure(_)
build_file_structure(file_urls) ==
    IF Len(file_urls) = 0 THEN {}
    ELSE InsertUrl(build_file_structure(Slice(file_urls, 1, Len(file_urls) - 1)),
                   Last(file_urls))

(***************************************************************************)
(* The inputs: page URLs and the documents the network serves              *)
(***************************************************************************)
\* most elements a mixed document holds
MaxElems == 2

\* how many URLs more than its cap a bulk document gives one category
BulkExtra == 1

\* the lists list(set(...)) may give are the sorted one rotated by 0..MaxRotate
MaxRotate == 1

\* most asset downloads that fail in one download-all call
MaxFailures == 2

\* most extraction calls made on an extractor between two fetches
MaxCalls == 3

\* most URLs passed to build_file_structure
MaxUrls == 3

PageUrl == <<"h","t","t","p",":","/","/","x","/","d","/","p",".","h","t","m","l">>

BarePageUrl == <<"h","t","t","p","s",":","/","/","y">>

MalformedUrl == <<"n","o","t"," ","a"," ","u","r","l">>

PageUrls == { PageUrl, BarePageUrl, MalformedUrl }

NoCss == <<>>

Link(rel, href) == Element("link", {"rel", "href"}, rel, href, <<>>, <<>>, NoCss, NoCss)

Script(src) == Element("script", {"src"}, {}, <<>>, src, <<>>, NoCss, NoCss)

Img(src, srcset) ==
    Element("img", {"src", "srcset"}, {}, <<>>, src, srcset, NoCss, NoCss)

Source(src, srcset) ==
    Element("source", {"src", "srcset"}, {}, <<>>, src, srcset, NoCss, NoCss)

Anchor(href) == Element("a", {"href"}, {}, href, <<>>, <<>>, NoCss, NoCss)

Styled(style) == Element("div", {"style"}, {}, <<>>, <<>>, <<>>, style, NoCss)

StyleBlock(string) == Element("style", {}, {}, <<>>, <<>>, <<>>, NoCss, string)

\* the elements mixed documents are made of
ElemPool ==
    << Link({"stylesheet"}, <<"a",".","c","s","s">>),
       Link({"stylesheet"}, <<"/","f",".","w","o","f","f">>),
       Script(<<"/","j","s","/","m",".","j","s","?","v","=","1","/","2">>),
       Script(<<"/","/","y">>),
       Img(<<"i",".","p","n","g">>,
           <<"h","t","t","p",":","/","/","y","/","j",".","p","n","g"," ","2","x",
             ","," ","k",".","p","n","g">>),
       Img(<<"/">>, <<>>),
       Source(<<"/","v","/","c",".","m","p","4">>, <<"s",".","p","n","g"," ","1","x">>),
       Anchor(<<"/","d","o","c","/","r",".","P","D","F">>),
       Anchor(<<"h","t","t","p",":","/","/","[",".","z","i","p">>),
       Styled(<< Css("url", <<"b","g",".","p","n","g">>),
                 Css("hex", <<"F","F","F">>),
                 Css("font-family", <<"'","O","p","e","n"," ","S","a","n","s","'",
                                      ","," ","A","r","i","a","l">>) >>),
       StyleBlock(<< Css("import", <<".",".","/","t",".","c","s","s">>),
                     Css("hex", <<"F","F","F">>),
                     Css("rgb", <<"r","g","b","(","1",","," ","2",","," ","3",")">>),
                     Css("font-face", <<"\"","L","a","t","o","\"">>) >>) >>

\* the elements of seq at the indices I, in order, from index i on
RECURSIVE Pick(_, _, _)
Pick(seq, I, i) ==
    IF i > Len(seq) THEN <<>>
    ELSE (IF i \in I THEN << seq[i] >> ELSE <<>>) \o Pick(seq, I, i + 1)

\* the subsequences of ElemPool of at most MaxElems elements
MixedDocs ==
    { Pick(ElemPool, I, 1) :
          I \in { J \in SUBSET DOMAIN ElemPool : Cardinality(J) <= MaxElems } }

\* the per-category limits of download_all_files
CssCap == 20

JsCap == 20

ImagesCap == 30

OthersCap == 10

\* the categories in the order download_all_files goes through them, by
\* the name of the local list
Categories == << "css_files", "js_files", "images", "others" >>

Cap(cat) ==
    CASE cat = "css_files" -> CssCap
      [] cat = "js_files"  -> JsCap
      [] cat = "images"    -> ImagesCap
      [] cat = "others"    -> OthersCap

\* the one-character names that tell the URLs of a bulk document apart
IdChars == LowerCase \o Digits

BulkRef(ch, ext) == <<"/", "b", "/", ch>> \o ext

\* a document that gives one category BulkExtra URLs more than its cap
BulkDoc(cat) ==
    [i \in 1..(Cap(cat) + BulkExtra) |->
        CASE cat = "css_files" ->
                 Link({"stylesheet"}, BulkRef(IdChars[i], <<".","c","s","s">>))
          [] cat = "js_files"  -> Script(BulkRef(IdChars[i], <<".","j","s">>))
          [] cat = "images"    -> Img(BulkRef(IdChars[i], <<".","p","n","g">>), <<>>)
          [] cat = "others"    -> Anchor(BulkRef(IdChars[i], <<".","p","d","f">>))]

BulkDocs == { BulkDoc(Categories[i]) : i \in DOMAIN Categories }

Docs == MixedDocs \cup BulkDocs

(***************************************************************************)
(* list(set(urls)): the order of the list is the set's iteration order,    *)
(* which the code does not fix.                                            *)
(***************************************************************************)
Rotate(seq, k) ==
    IF Len(seq) = 0 THEN seq
    ELSE [i \in DOMAIN seq |-> seq[((i - 1 + k) % Len(seq)) + 1]]

Min(a, b) == IF a < b THEN a ELSE b

ListOf(S) ==
    { Rotate(Sorted(S), k) : k \in 0..Min(MaxRotate, Cardinality(S)) }

(***************************************************************************)
(* State                                                                   *)
(***************************************************************************)
VARIABLES
    request,    \* the request being served: [op, url]
    site,       \* the document the network serves for the page URL
    pc,         \* where the handler is
    self,       \* the WebsiteExtractor
    locals,     \* the handler's css_files, js_files, images, others, colors, fonts
    loop,       \* download-all: [cat, i], the category and the URLs of it done
    zip_file,   \* download-all: the entries written, each [name, cat, url]
    fetched,    \* the download_file calls made, each [cat, url, ok]
    raised,     \* the exception that ended the handler: [exc, at]
    response,   \* the response: [status, analysis, archive, file]
    calls,      \* direct use of an extractor: per operation, [n, outs]
    file_urls,  \* build_file_structure: its argument
    done_urls,  \* build_file_structure: the URLs of file_urls gone through
    structure   \* build_file_structure: the dict built so far

vars == << request, site, pc, self, locals, loop, zip_file, fetched, raised,
           response, calls, file_urls, done_urls, structure >>

(***************************************************************************)
(* WebsiteExtractor: construction and fetch_html                           *)
(***************************************************************************)
_get_base_url(url) ==
    LET parsed == urlparse(url)
    IN  parsed.scheme \o <<":", "/", "/">> \o parsed.netloc

WebsiteExtractor(url) ==
    [url |-> url, soup |-> None, html_content |-> None,
     base_url |-> _get_base_url(url)]

\* what requests accepts as a URL to get: an http(s) scheme and a host
WellFormed(url) ==
    LET parsed == urlparse(url)
    IN  /\ parsed.scheme \in { <<"h","t","t","p">>, <<"h","t","t","p","s">> }
        /\ Len(parsed.netloc) > 0
        /\ ~parsed.bad

\* how one call of fetch_html can go: the response arrives and parses (ok),
\* requests raises Timeout or another RequestException (a malformed URL is
\* one: MissingSchema, InvalidSchema, InvalidURL), or the parser raises
FetchOutcomes(url) ==
    IF WellFormed(url)
    THEN { "ok", "Timeout", "RequestException", "ParserError" }
    ELSE { "RequestException" }

\* fetch_html keeping the text it got so far when the request fails
fetch_html_partial(this, outcome, doc) ==
    CASE outcome = "ok" ->
             [self   |-> [this EXCEPT !.html_content = Some(doc), !.soup = Some(doc)],
              raised |-> "none"]
      [] outcome \in { "Timeout", "RequestException" } ->
             [self   |-> [this EXCEPT !.html_content = Some(doc)],
              raised |-> "ConnectionError"]
      [] outcome = "ParserError" ->
             [self   |-> [this EXCEPT !.html_content = Some(doc)],
              raised |-> "Exception"]

\* fetch_html: the extractor after the call and the exception raised
fetch_html(this, outcome, doc) ==
    CASE outcome = "ok" ->
             [self   |-> [this EXCEPT !.html_content = Some(doc), !.soup = Some(doc)],
              raised |-> "none"]
      [] outcome \in { "Timeout", "RequestException" } ->
             [self |-> this, raised |-> "ConnectionError"]
      [] outcome = "ParserError" ->
             [self   |-> [this EXCEPT !.html_content = Some(doc)],
              raised |-> "Exception"]

(***************************************************************************)
(* FileDownloader.download_file                                            *)
(***************************************************************************)
\* the content of the response, or the Exception raised for a Timeout or
\* another RequestException
download_file(url, outcome) ==
    IF outcome = "ok" THEN [raised |-> "none", content |-> url]
    ELSE [raised |-> "Exception", content |-> <<>>]

DownloadOutcomes == { "ok", "Timeout", "RequestException" }

(***************************************************************************)
(* main.py: what the handlers share                                        *)
(***************************************************************************)
NoLocals ==
    [css_files |-> <<>>, js_files |-> <<>>, images |-> <<>>, others |-> <<>>,
     colors |-> <<>>, fonts |-> <<>>]

NoResponse == [status |-> 0, analysis |-> <<>>, archive |-> <<>>, file |-> <<>>]

NoRaise == [exc |-> "none", at |-> "none"]

NoCalls ==
    [op \in { "extract_css_files", "extract_js_files", "extract_images",
              "extract_other_files", "extract_colors", "extract_fonts" } |->
        [n |-> 0, outs |-> {}]]

\* the except clauses of the handlers: the status of the HTTPException
StatusOf(op, exc) ==
    IF op = "analyze"
    THEN CASE exc = "ValueError"      -> 400
           [] exc = "ConnectionError" -> 503
           [] OTHER                   -> 500
    ELSE 500

\* url.split('/')[-1].split('?')[0] or default
FileName(url, default) ==
    LET name == Split(Last(Split(url, "/")), "?")[1]
    IN  IF Len(name) = 0 THEN default ELSE name

\* the extraction that fills a local list
ExtractorOf(cat) ==
    CASE cat = "css_files" -> "extract_css_files"
      [] cat = "js_files"  -> "extract_js_files"
      [] cat = "images"    -> "extract_images"
      [] cat = "others"    -> "extract_other_files"

\* calling one of the four URL extractions
ExtractUrls(op, this) ==
    CASE op = "extract_css_files"   -> extract_css_files(this)
      [] op = "extract_js_files"    -> extract_js_files(this)
      [] op = "extract_images"      -> extract_images(this)
      [] op = "extract_other_files" -> extract_other_files(this)

\* calling one of the two design extractions
ExtractDesign(op, this) ==
    CASE op = "extract_colors" -> extract_colors(this)
      [] op = "extract_fonts"  -> extract_fonts(this)

\* the directory of a category inside the archive
ArchiveDir(cat) ==
    CASE cat = "css_files" -> <<"c","s","s">>
      [] cat = "js_files"  -> <<"j","s">>
      [] cat = "images"    -> <<"i","m","a","g","e","s">>
      [] cat = "others"    -> <<"o","t","h","e","r","s">>

\* the file name of a category for a URL that gives none
DefaultName(cat) ==
    CASE cat = "css_files" -> <<"s","t","y","l","e",".","c","s","s">>
      [] cat = "js_files"  -> <<"s","c","r","i","p","t",".","j","s">>
      [] cat = "images"    -> <<"i","m","a","g","e",".","j","p","g">>
      [] cat = "others"    -> <<"f","i","l","e">>

IndexName == <<"i","n","d","e","x",".","h","t","m","l">>

\* urls[:cap]
Capped(urls, cap) == Slice(urls, 1, Min(cap, Len(urls)))

\* the URLs the loop of a category goes through
LoopUrls(cat) == Capped(locals[cat], Cap(cat))

Failures == Cardinality({ i \in DOMAIN fetched : ~fetched[i].ok })

\* the URLs the single-file download is asked for
FileUrls ==
    { <<"h","t","t","p",":","/","/","x","/","d","/","a",".","c","s","s">>,
      <<"h","t","t","p",":","/","/","x","/","j","s","/","m",".","j","s","?","v","=","1","/","2">>,
      <<"h","t","t","p",":","/","/","x","/">>,
      <<"h","t","t","p",":","/","/","y">> }

(***************************************************************************)
(* The request handlers of main.py, one request per behaviour              *)
(***************************************************************************)
Init ==
    /\ request = [op |-> "none", url |-> <<>>]
    /\ site = <<>>
    /\ pc = "idle"
    /\ self = WebsiteExtractor(<<>>)
    /\ locals = NoLocals
    /\ loop = [cat |-> 1, i |-> 0]
    /\ zip_file = <<>>
    /\ fetched = <<>>
    /\ raised = NoRaise
    /\ response = NoResponse
    /\ calls = NoCalls
    /\ file_urls = <<>>
    /\ done_urls = 0
    /\ structure = {}

NotDirect == UNCHANGED << calls, file_urls, done_urls, structure >>

\* the handler ends in its except clause
Fail(exc, at) ==
    /\ raised' = [exc |-> exc, at |-> at]
    /\ response' = [NoResponse EXCEPT !.status = StatusOf(request.op, exc)]
    /\ pc' = "done"

\* POST /analyze or POST /download-all arrives, for a page that serves doc
PageRequest ==
    /\ pc = "idle"
    /\ \E op \in { "analyze", "download_all" }, url \in PageUrls, doc \in Docs :
           /\ request' = [op |-> op, url |-> url]
           /\ site' = doc
    /\ pc' = "validate"
    /\ UNCHANGED << self, locals, loop, zip_file, fetched, raised, response >>
    /\ NotDirect

\* GET /download?file_url=... arrives: file_url is any string
FileRequest ==
    /\ pc = "idle"
    /\ \E url \in FileUrls \cup { MalformedUrl } :
           request' = [op |-> "download", url |-> url]
    /\ pc' = "download_file"
    /\ UNCHANGED << site, self, locals, loop, zip_file, fetched, raised, response >>
    /\ NotDirect

\* url: HttpUrl of the request model refuses the URL: the handler never runs
\* and the framework answers 422
ValidationError ==
    /\ pc = "validate"
    /\ ~WellFormed(request.url)
    /\ response' = [NoResponse EXCEPT !.status = 422]
    /\ raised' = [exc |-> "RequestValidationError", at |-> "validate"]
    /\ pc' = "done"
    /\ UNCHANGED << request, site, self, locals, loop, zip_file, fetched >>
    /\ NotDirect

\* the request model lets the URL through (how strict HttpUrl is is not in
\* the source); the handler makes its extractor
ValidationPass ==
    /\ pc = "validate"
    /\ self' = WebsiteExtractor(request.url)
    /\ pc' = "fetch_html"
    /\ UNCHANGED << request, site, locals, loop, zip_file, fetched, raised, response >>
    /\ NotDirect

\* html_source = extractor.fetch_html()
FetchHtml ==
    /\ pc = "fetch_html"
    /\ \E outcome \in FetchOutcomes(self.url) :
           LET r == fetch_html(self, outcome, site)
           IN  /\ self' = r.self
               /\ IF r.raised = "none"
                  THEN /\ pc' = "extract_css_files"
                       /\ UNCHANGED << raised, response >>
                  ELSE Fail(r.raised, "fetch_html")
    /\ UNCHANGED << request, site, locals, loop, zip_file, fetched >>
    /\ NotDirect

\* what follows the extraction of a category in the handler
AfterExtract(cat) ==
    CASE cat = "css_files" -> "extract_js_files"
      [] cat = "js_files"  -> "extract_images"
      [] cat = "images"    -> "extract_other_files"
      [] cat = "others"    ->
             IF request.op = "analyze" THEN "extract_colors" ELSE "writestr_index"

\* css_files = extractor.extract_css_files(), and the three after it
ExtractResources ==
    /\ \E c \in DOMAIN Categories :
           LET cat == Categories[c]
               r   == ExtractUrls(ExtractorOf(cat), self)
           IN  /\ pc = ExtractorOf(cat)
               /\ IF r.raised = "none"
                  THEN /\ \E urls \in ListOf(r.urls) :
                              locals' = [locals EXCEPT ![cat] = urls]
                       /\ pc' = AfterExtract(cat)
                       /\ UNCHANGED << raised, response >>
                  ELSE /\ Fail(r.raised, ExtractorOf(cat))
                       /\ UNCHANGED locals
    /\ UNCHANGED << request, site, self, loop, zip_file, fetched >>
    /\ NotDirect

\* colors = extractor.extract_colors(); fonts = extractor.extract_fonts()
ExtractDesigns ==
    /\ pc \in { "extract_colors", "extract_fonts" }
    /\ LET r == ExtractDesign(pc, self)
       IN  IF pc = "extract_colors"
           THEN /\ locals' = [locals EXCEPT !.colors = r.vals]
                /\ pc' = "extract_fonts"
                /\ UNCHANGED << file_urls, done_urls, structure >>
           ELSE /\ locals' = [locals EXCEPT !.fonts = r.vals]
                /\ pc' = "build_file_structure"
                /\ file_urls' = locals.css_files \o locals.js_files
                                    \o locals.images \o locals.others
                /\ done_urls' = 0
                /\ structure' = {}
    /\ UNCHANGED << request, site, self, loop, zip_file, fetched, raised,
                    response, calls >>

\* one turn of the loop of build_file_structure over file_urls
InsertNext ==
    /\ pc = "build_file_structure"
    /\ done_urls < Len(file_urls)
    /\ structure' = InsertUrl(structure, file_urls[done_urls + 1])
    /\ done_urls' = done_urls + 1
    /\ UNCHANGED << request, site, pc, self, locals, loop, zip_file, fetched,
                    raised, response, calls, file_urls >>

\* the loop is over: the structure, the summary and the AnalyzeResponse
AnalyzeRespond ==
    /\ pc = "build_file_structure"
    /\ request.op = "analyze"
    /\ done_urls = Len(file_urls)
    /\ response' =
           [NoResponse EXCEPT
               !.status = 200,
               !.analysis =
                   << [html_source |-> self.html_content.val,
                       css_files   |-> locals.css_files,
                       js_files    |-> locals.js_files,
                       images      |-> locals.images,
                       others      |-> locals.others,
                       colors      |-> locals.colors,
                       fonts       |-> locals.fonts,
                       structure   |-> structure,
                       summary     |-> [total_css    |-> Len(locals.css_files),
                                        total_js     |-> Len(locals.js_files),
                                        total_images |-> Len(locals.images),
                                        total_others |-> Len(locals.others)]] >>]
    /\ pc' = "done"
    /\ file_urls' = <<>>
    /\ done_urls' = 0
    /\ structure' = {}
    /\ UNCHANGED << request, site, self, locals, loop, zip_file, fetched, raised,
                    calls >>

\* the loops entered with index.html not yet written
WriteIndex_deferred ==
    /\ pc = "writestr_index"
    /\ loop' = [cat |-> 1, i |-> 0]
    /\ pc' = "loop"
    /\ UNCHANGED << request, site, self, locals, zip_file, fetched, raised,
                    response >>
    /\ NotDirect

\* zip_file.writestr('index.html', html_source)
WriteIndex ==
    /\ pc = "writestr_index"
    /\ zip_file' = << [name |-> IndexName, cat |-> "html", url |-> request.url] >>
    /\ loop' = [cat |-> 1, i |-> 0]
    /\ pc' = "loop"
    /\ UNCHANGED << request, site, self, locals, fetched, raised, response >>
    /\ NotDirect

\* one turn of a category's loop in which download_file returns: the file
\* is written under the category's directory
DownloadAssetOk ==
    /\ pc = "loop"
    /\ loop.i < Len(LoopUrls(Categories[loop.cat]))
    /\ LET cat  == Categories[loop.cat]
           url  == LoopUrls(cat)[loop.i + 1]
           got  == download_file(url, "ok")
           name == ArchiveDir(cat) \o <<"/">> \o FileName(url, DefaultName(cat))
       IN  /\ fetched' = Append(fetched, [cat |-> cat, url |-> url, ok |-> TRUE])
           /\ zip_file' = Append(zip_file, [name |-> name, cat |-> cat,
                                            url |-> got.content])
    /\ loop' = [loop EXCEPT !.i = @ + 1]
    /\ UNCHANGED << request, site, pc, self, locals, raised, response >>
    /\ NotDirect

\* one turn in which download_file raises, with no try around it: the
\* exception ends the handler
DownloadAssetFail_aborting ==
    /\ pc = "loop"
    /\ loop.i < Len(LoopUrls(Categories[loop.cat]))
    /\ Failures < MaxFailures
    /\ \E outcome \in DownloadOutcomes \ { "ok" } :
           LET cat == Categories[loop.cat]
               url == LoopUrls(cat)[loop.i + 1]
               got == download_file(url, outcome)
           IN  /\ got.raised # "none"
               /\ fetched' = Append(fetched, [cat |-> cat, url |-> url, ok |-> FALSE])
               /\ Fail(got.raised, "loop")
    /\ UNCHANGED << request, site, self, locals, loop, zip_file >>
    /\ NotDirect

\* one turn in which download_file raises: except Exception prints and the
\* loop goes on
DownloadAssetFail ==
    /\ pc = "loop"
    /\ loop.i < Len(LoopUrls(Categories[loop.cat]))
    /\ Failures < MaxFailures
    /\ \E outcome \in DownloadOutcomes \ { "ok" } :
           LET cat == Categories[loop.cat]
               url == LoopUrls(cat)[loop.i + 1]
               got == download_file(url, outcome)
           IN  /\ got.raised # "none"
               /\ fetched' = Append(fetched, [cat |-> cat, url |-> url, ok |-> FALSE])
    /\ loop' = [loop EXCEPT !.i = @ + 1]
    /\ UNCHANGED << request, site, pc, self, locals, zip_file, raised, response >>
    /\ NotDirect

\* a category's loop is over: on to the next one
NextCategory ==
    /\ pc = "loop"
    /\ loop.i = Len(LoopUrls(Categories[loop.cat]))
    /\ loop.cat < Len(Categories)
    /\ loop' = [cat |-> loop.cat + 1, i |-> 0]
    /\ UNCHANGED << request, site, pc, self, locals, zip_file, fetched, raised,
                    response >>
    /\ NotDirect

\* the last loop is over: the archive is closed and streamed
ArchiveRespond ==
    /\ pc = "loop"
    /\ loop.i = Len(LoopUrls(Categories[loop.cat]))
    /\ loop.cat = Len(Categories)
    /\ response' = [NoResponse EXCEPT !.status = 200, !.archive = << zip_file >>]
    /\ pc' = "done"
    /\ UNCHANGED << request, site, self, locals, loop, zip_file, fetched, raised >>
    /\ NotDirect

\* GET /download: the file is fetched and streamed under its file name
DownloadFile ==
    /\ pc = "download_file"
    /\ \E outcome \in DownloadOutcomes :
           LET got == download_file(request.url, outcome)
           IN  /\ fetched' = Append(fetched, [cat |-> "file", url |-> request.url,
                                              ok |-> got.raised = "none"])
               /\ IF got.raised = "none"
                  THEN /\ response' =
                              [NoResponse EXCEPT
                                  !.status = 200,
                                  !.file = << [filename |-> FileName(request.url,
                                                                     DefaultName("others")),
                                               content  |-> got.content] >>]
                       /\ pc' = "done"
                       /\ UNCHANGED raised
                  ELSE Fail(got.raised, "download_file")
    /\ UNCHANGED << request, site, self, locals, loop, zip_file >>
    /\ NotDirect

Next ==
    \/ PageRequest
    \/ FileRequest
    \/ ValidationError
    \/ ValidationPass
    \/ FetchHtml
    \/ ExtractResources
    \/ ExtractDesigns
    \/ InsertNext
    \/ AnalyzeRespond
    \/ WriteIndex
    \/ DownloadAssetOk
    \/ DownloadAssetFail
    \/ NextCategory
    \/ ArchiveRespond
    \/ DownloadFile

Spec == Init /\ [][Next]_vars

(***************************************************************************)
(* An extractor used directly: fetch_html and the six extractions, called  *)
(* in any order                                                            *)
(***************************************************************************)
\* color literals as the patterns of extract_colors match them in CSS text:
\* for the hex pattern the match is its group, the digits after the '#'
HexUpper == Css("hex", <<"F","F","F">>)

HexLower == Css("hex", <<"f","f","f">>)

HexLong == Css("hex", <<"1","a","2","B","3","c">>)

RgbLiteral == Css("rgb", <<"r","g","b","(","1",","," ","2",","," ","3",")">>)

RgbaLiteral == Css("rgba", <<"R","G","B","A","(","0",",","0",",","0",",",".","5",")">>)

HslLiteral == Css("hsl", <<"h","s","l","(","1",","," ","2","%",","," ","3","%",")">>)

\* documents of an element with a style attribute followed by a <style>
\* block: the same literal in both, literals that differ in case only,
\* literals of every pattern, and a block without colors
ColorDocs ==
    { << Styled(a), StyleBlock(b) >> :
          a \in { << HexUpper, RgbaLiteral >>, << HexLower, HexLong >> },
          b \in { << HexUpper, RgbLiteral >>, << HslLiteral, HexLong >>, NoCss } }

\* the documents served to an extractor used directly: those of at most
\* one element, and the one of all elements
DirectDocs == { d \in MixedDocs : Len(d) <= 1 } \cup { ElemPool } \cup ColorDocs

UrlExtractions ==
    { "extract_css_files", "extract_js_files", "extract_images",
      "extract_other_files" }

DesignExtractions == { "extract_colors", "extract_fonts" }

\* the extraction calls made since the extractor last changed
RECURSIVE SumCalls(_, _)
SumCalls(c, ops) ==
    IF ops = {} THEN 0
    ELSE LET op == CHOOSE op \in ops : TRUE
         IN  c[op].n + SumCalls(c, ops \ {op})

TotalCalls(c) == SumCalls(c, DOMAIN c)

Called(c, op, out) == [c EXCEPT ![op] = [n |-> @.n + 1, outs |-> @.outs \cup {out}]]

NotHandler ==
    UNCHANGED << request, locals, loop, zip_file, fetched, raised, response,
                 file_urls, done_urls, structure >>

DirectInit ==
    /\ request = [op |-> "none", url |-> <<>>]
    /\ site = <<>>
    /\ pc = "direct"
    /\ \E url \in PageUrls : self = WebsiteExtractor(url)
    /\ locals = NoLocals
    /\ loop = [cat |-> 1, i |-> 0]
    /\ zip_file = <<>>
    /\ fetched = <<>>
    /\ raised = NoRaise
    /\ response = NoResponse
    /\ calls = NoCalls
    /\ file_urls = <<>>
    /\ done_urls = 0
    /\ structure = {}

\* extractor.fetch_html(), the network serving some document
CallFetchHtml ==
    /\ pc = "direct"
    /\ \E doc \in DirectDocs, outcome \in FetchOutcomes(self.url) :
           /\ self' = fetch_html(self, outcome, doc).self
           /\ site' = IF outcome = "Timeout" \/ outcome = "RequestException"
                      THEN site ELSE doc
    /\ calls' = IF self' = self THEN calls ELSE NoCalls
    /\ UNCHANGED pc
    /\ NotHandler

\* one of the four URL extractions, with a bug that empties the document
CallExtractUrls_consuming ==
    /\ pc = "direct"
    /\ TotalCalls(calls) < MaxCalls
    /\ \E op \in UrlExtractions :
           calls' = Called(calls, op, ExtractUrls(op, self))
    /\ self' = IF self.soup.none THEN self ELSE [self EXCEPT !.soup = Some(<<>>)]
    /\ UNCHANGED << pc, site >>
    /\ NotHandler

\* one of the four URL extractions; what it returns is kept as a set
CallExtractUrls ==
    /\ pc = "direct"
    /\ TotalCalls(calls) < MaxCalls
    /\ \E op \in UrlExtractions :
           calls' = Called(calls, op, ExtractUrls(op, self))
    /\ UNCHANGED << pc, self, site >>
    /\ NotHandler

\* extract_colors or extract_fonts
CallExtractDesign ==
    /\ pc = "direct"
    /\ TotalCalls(calls) < MaxCalls
    /\ \E op \in DesignExtractions :
           calls' = Called(calls, op, ExtractDesign(op, self))
    /\ UNCHANGED << pc, self, site >>
    /\ NotHandler

DirectNext ==
    \/ CallFetchHtml
    \/ CallExtractUrls
    \/ CallExtractDesign

DirectSpec == DirectInit /\ [][DirectNext]_vars

(***************************************************************************)
(* build_file_structure on a list of URLs, one URL a step                  *)
(***************************************************************************)
\* the URLs the lists passed to build_file_structure are made of
TreeUrls ==
    { <<"h","t","t","p",":","/","/","x","/","a">>,
      <<"h","t","t","p",":","/","/","x","/","a","/","b">>,
      <<"h","t","t","p",":","/","/","x","/","a","/","b","/","c">>,
      <<"h","t","t","p",":","/","/","x","/">>,
      <<"h","t","t","p",":","/","/","y","/","a","?","q","=","1">>,
      <<"h","t","t","p",":","/","/","x","/","c","/","d",".","c","s","s">>,
      <<"h","t","t","p",":","/","/","x","/","c","/","e",".","c","s","s">>,
      <<"h","t","t","p",":","/","/","x","/","a","/","c">>,
      <<"h","t","t","p",":","/","/","[","/","f">> }

\* the lists of at most MaxUrls of them
UrlLists == UNION { [1..n -> TreeUrls] : n \in 0..MaxUrls }

TreeInit ==
    /\ request = [op |-> "none", url |-> <<>>]
    /\ site = <<>>
    /\ pc = "build_file_structure"
    /\ self = WebsiteExtractor(PageUrl)
    /\ locals = NoLocals
    /\ loop = [cat |-> 1, i |-> 0]
    /\ zip_file = <<>>
    /\ fetched = <<>>
    /\ raised = NoRaise
    /\ response = NoResponse
    /\ calls = NoCalls
    /\ file_urls \in UrlLists
    /\ done_urls = 0
    /\ structure = {}

TreeNext == InsertNext

TreeSpec == TreeInit /\ [][TreeNext]_vars

(***************************************************************************)
(* Download-all: the caps and the archive                                  *)
(***************************************************************************)
\* the download_file calls of the log made for a category
Attempts(cat) == SelectSeq(fetched, LAMBDA f : f.cat = cat)

\* the [cat, url] of the entries of a sequence of log or archive entries
Sources(entries) == [i \in DOMAIN entries |-> << entries[i].cat, entries[i].url >>]

DownloadAllDone == request.op = "download_all" /\ pc = "done"

\* Per category, a finished download-all made one download_file call for
\* each URL of the capped list, in the order of the list, and none else.
AttemptsFollowCappedLists ==
    (DownloadAllDone /\ response.status = 200) =>
        \A c \in DOMAIN Categories :
            LET cat == Categories[c]
            IN  /\ Len(Attempts(cat)) = Min(Len(locals[cat]), Cap(cat))
                /\ \A i \in DOMAIN Attempts(cat) :
                       Attempts(cat)[i].url = locals[cat][i]

\* C1: in one download-all call the fetches attempted for a category are
\* min(number of its URLs, its cap), no URL beyond a cap is ever fetched,
\* and no URL is fetched more than once.
C1_CapsAndSingleFetch ==
    request.op = "download_all" =>
        /\ (pc = "done" /\ response.status = 200) =>
               \A c \in DOMAIN Categories :
                   Len(Attempts(Categories[c]))
                       = Min(Len(locals[Categories[c]]), Cap(Categories[c]))
        /\ \A c \in DOMAIN Categories :
               \A i \in DOMAIN locals[Categories[c]] :
                   i > Cap(Categories[c]) =>
                       \A k \in DOMAIN fetched :
                           fetched[k].url # locals[Categories[c]][i]
        /\ \A j, k \in DOMAIN fetched :
               j # k => fetched[j].url # fetched[k].url

\* C2: once the page is fetched and its URLs are extracted, download-all
\* succeeds whatever asset fetches fail; the archive holds index.html, then
\* one entry under its category for each asset fetched, and none for a
\* failed one.
C2_AssetFailuresSkipped ==
    (request.op = "download_all" /\ Len(zip_file) > 0) =>
        /\ zip_file[1].name = IndexName
        /\ Sources(Tail(zip_file)) = Sources(SelectSeq(fetched, LAMBDA f : f.ok))
        /\ \A i \in DOMAIN zip_file :
               i > 1 => StartsWith(zip_file[i].name,
                                   ArchiveDir(zip_file[i].cat) \o <<"/">>)
        /\ pc = "done" =>
               /\ response.status = 200
               /\ response.archive = << zip_file >>
               /\ raised = NoRaise

\* a download-all that ended with the cap of a category reached, failed
\* fetches in it, and fetched ones
C2_Witness ==
    /\ DownloadAllDone
    /\ response.status = 200
    /\ Len(Attempts("css_files")) = CssCap
    /\ Failures = MaxFailures
    /\ Len(response.archive[1]) = 1 + CssCap - MaxFailures

(***************************************************************************)
(* The outcome of a failing analyze                                        *)
(***************************************************************************)
\* the status the error kinds stand for, by the cause of the failure
ClaimedStatus ==
    IF ~WellFormed(request.url) THEN 400
    ELSE IF raised.at = "fetch_html" /\ raised.exc = "ConnectionError" THEN 503
    ELSE 500

\* C3: a failing analyze answers 400 when the page URL is not well formed,
\* 503 when the page fetch timed out or the transport failed, and 500 for
\* every other failure.
C3_ErrorKinds ==
    (request.op = "analyze" /\ pc = "done" /\ response.status # 200) =>
        response.status = ClaimedStatus

(***************************************************************************)
(* A failed page fetch                                                     *)
(***************************************************************************)
\* C4: if the page fetch fails the operation fails with no partial output:
\* no analysis, no archive, no asset fetch, and soup and html_content stay
\* None; no extraction runs after fetch_html raised, whatever it raised.
C4_NoPartialOutput ==
    (raised.at = "fetch_html") =>
        /\ response.status \in { 500, 503 }
        /\ response.analysis = <<>>
        /\ response.archive = <<>>
        /\ fetched = <<>>
        /\ zip_file = <<>>
        /\ locals = NoLocals
        /\ self.soup.none
        /\ raised.exc = "ConnectionError" => self.html_content.none

\* analyze and download-all each ended by a failed page fetch
C4_Witness ==
    /\ pc = "done"
    /\ request.op = "download_all"
    /\ WellFormed(request.url)
    /\ Len(site) > 0
    /\ raised = [exc |-> "ConnectionError", at |-> "fetch_html"]
    /\ response.status = 500

(***************************************************************************)
(* Extraction on an extractor used directly                                *)
(***************************************************************************)
\* a step that is an extraction call
ExtractionStep == TotalCalls(calls') = TotalCalls(calls) + 1

\* what an extraction gave is empty and nothing was raised
EmptyOut(out) ==
    /\ out.raised = "none"
    /\ IF "urls" \in DOMAIN out THEN out.urls = {} ELSE out.vals = <<>>

\* C5: while fetch_html has not succeeded, each of the six extractions
\* returns an empty collection and raises nothing, in any order and any
\* number of times, and leaves the extractor as it is.
C5_EmptyBeforeFetch ==
    /\ [](self.soup.none =>
              \A op \in DOMAIN calls : \A out \in calls[op].outs : EmptyOut(out))
    /\ [][(self.soup.none /\ ExtractionStep) => self' = self]_vars

\* three extractions called on an extractor whose fetch_html got the page
\* and raised in the parser: html_content is set, soup is not
C5_Witness ==
    /\ pc = "direct"
    /\ self.soup.none
    /\ ~self.html_content.none
    /\ Len(self.html_content.val) > 1
    /\ calls["extract_css_files"].n = 1
    /\ calls["extract_images"].n = 1
    /\ calls["extract_colors"].n = 1

(***************************************************************************)
(* build_file_structure                                                    *)
(***************************************************************************)
\* the keys build_file_structure walks for a URL; none when the URL does
\* not parse or its path is empty
PathParts(url) ==
    LET parsed == urlparse(url)
    IN  IF parsed.bad \/ Len(Strip(parsed.path, {"/"})) = 0 THEN <<>>
        ELSE Split(Strip(parsed.path, {"/"}), "/")

\* the URLs gone through so far
DoneUrls == { file_urls[i] : i \in 1..done_urls }

\* C6: when the URL inserted uses as a directory a key that holds a leaf,
\* the leaf is replaced by a directory and the URL is placed beneath it.
C6_LeafBecomesDirectory ==
    (pc = "build_file_structure" /\ done_urls > 0) =>
        LET before == build_file_structure(Slice(file_urls, 1, done_urls - 1))
            url    == file_urls[done_urls]
            parts  == PathParts(url)
        IN  \A k \in 1..(Len(parts) - 1) :
                (\E n \in before : n.leaf /\ n.path = Slice(parts, 1, k)) =>
                    /\ Dir(Slice(parts, 1, k)) \in structure
                    /\ Leaf(parts, url) \in structure

\* no URL's path is a directory prefix of, or equal to, another URL's path
NoPathConflict(urls) ==
    \A u, v \in urls :
        (u # v /\ Len(PathParts(u)) > 0) => ~IsPrefix(PathParts(u), PathParts(v))

\* C7: for URLs none of whose paths is a prefix of or equal to another's,
\* every URL with a non-empty path is the leaf at exactly its path
\* segments, there are no other leaves, every other entry is a directory
\* on the way to a leaf, and URLs with an empty path add nothing.
C7_TreeOfDisjointPaths ==
    (pc = "build_file_structure" /\ NoPathConflict(DoneUrls)) =>
        LET placed == { u \in DoneUrls : Len(PathParts(u)) > 0 }
        IN  /\ { n \in structure : n.leaf }
                   = { Leaf(PathParts(u), u) : u \in placed }
            /\ { n.path : n \in { m \in structure : ~m.leaf } }
                   = UNION { { Slice(PathParts(u), 1, k) :
                                   k \in 1..(Len(PathParts(u)) - 1) } : u \in placed }
            /\ \A n, m \in structure : n.path = m.path => n = m

\* three URLs in, two of them files of one directory, one with an empty path
C7_Witness ==
    /\ pc = "build_file_structure"
    /\ done_urls = 3
    /\ NoPathConflict(DoneUrls)
    /\ Cardinality({ n \in structure : n.leaf }) = 2
    /\ Cardinality({ n \in structure : ~n.leaf }) = 1
    /\ \E u \in DoneUrls : Len(PathParts(u)) = 0 /\ ~urlparse(u).bad

(***************************************************************************)
(* The categories of one analysis                                          *)
(***************************************************************************)
\* C8: the four URL lists of one analysis are pairwise disjoint: every URL
\* is in exactly one category.
C8_CategoriesDisjoint ==
    (request.op = "analyze" /\ pc = "done" /\ response.status = 200) =>
        \A c, d \in DOMAIN Categories :
            c # d => Range(response.analysis[1][Categories[c]])
                         \cap Range(response.analysis[1][Categories[d]]) = {}

(***************************************************************************)
(* Extraction twice                                                        *)
(***************************************************************************)
\* C9: on a fetched document, the runs of an extraction, whatever other
\* extractions run between them, return the same set, and no extraction
\* changes the document, the html text or the URL of the extractor.
C9_ExtractionRepeats ==
    /\ [](\A op \in DOMAIN calls : Cardinality(calls[op].outs) <= 1)
    /\ [][(~self.soup.none /\ ExtractionStep) =>
              /\ self'.soup = self.soup
              /\ self'.html_content = self.html_content
              /\ self'.url = self.url]_vars

\* an extraction that ran twice on a fetched document and returned URLs,
\* with another extraction run as well
C9_Witness ==
    /\ pc = "direct"
    /\ ~self.soup.none
    /\ calls["extract_images"].n = 2
    /\ \E out \in calls["extract_images"].outs : Cardinality(out.urls) >= 2
    /\ calls["extract_fonts"].n = 1
    /\ \E out \in calls["extract_fonts"].outs : Len(out.vals) >= 2

(***************************************************************************)
(* File names                                                              *)
(***************************************************************************)
\* the last segment of the path component of a URL
LastPathSegment(url) == Last(Split(urlparse(url).path, "/"))

\* the last segment of the path of a URL, the default name when it has none
ClaimedName(url, default) ==
    IF Len(LastPathSegment(url)) = 0 THEN default ELSE LastPathSegment(url)

\* C10: the file name of an archive entry and of the single-file download
\* is the last segment of the URL's path, the query stripped, whatever the
\* query holds; the default name is used exactly when there is no such
\* segment.
C10_FileNameIsLastPathSegment ==
    /\ \A i \in DOMAIN zip_file :
           i > 1 => zip_file[i].name
                        = ArchiveDir(zip_file[i].cat) \o <<"/">>
                              \o ClaimedName(zip_file[i].url,
                                             DefaultName(zip_file[i].cat))
    /\ \A i \in DOMAIN response.file :
           response.file[i].filename
               = ClaimedName(response.file[i].content, DefaultName("others"))

(***************************************************************************)
(* Colors                                                                  *)
(***************************************************************************)
\* the digits of the hex literals of the style attributes of a document
InlineHex(soup) ==
    UNION { findall("hex", e.style) : e \in Elems(find_all_attr(soup, "style")) }

\* the digits of the hex literals of the <style> blocks of a document
BlockHex(soup) ==
    UNION { findall("hex", e.string) : e \in Elems(find_all_tag(soup, "style")) }

\* the rgb, rgba and hsl literals of a document, as written
FunctionLiterals(soup) ==
    UNION { FunctionColors(e.style) \cup FunctionColors(e.string) :
                e \in Elems(soup) }

\* C11: what extract_colors returns for a fetched document is strictly
\* ascending; it holds, for every hex literal of a style attribute or of a
\* <style> block, one '#' followed by the digits as written, once however
\* often and wherever the literal occurs, and every rgb, rgba and hsl
\* literal as written, and nothing else.
C11_ColorsSortedAndClean ==
    ~self.soup.none =>
        \A out \in calls["extract_colors"].outs :
            /\ out.raised = "none"
            /\ \A i \in 1..(Len(out.vals) - 1) :
                   StrLess(out.vals[i], out.vals[i + 1])
            /\ Range(out.vals)
                   = { <<"#">> \o d :
                           d \in InlineHex(self.soup.val) \cup BlockHex(self.soup.val) }
                         \cup FunctionLiterals(self.soup.val)
            /\ \A i \in DOMAIN out.vals :
                   out.vals[i][1] = "#" => "#" \notin Range(Tail(out.vals[i]))

\* extract_colors ran on a document with the same hex literal in a style
\* attribute and in a <style> block, and function literals beside it
C11_Witness ==
    /\ pc = "direct"
    /\ ~self.soup.none
    /\ InlineHex(self.soup.val) \cap BlockHex(self.soup.val) # {}
    /\ \E out \in calls["extract_colors"].outs :
           /\ Len(out.vals) = 3
           /\ \E i \in DOMAIN out.vals : out.vals[i][1] = "#"
           /\ \E i \in DOMAIN out.vals : out.vals[i][1] # "#"

(***************************************************************************)
(* build_file_structure: a file written over a directory                   *)
(***************************************************************************)
\* the dict before the URL last gone through was inserted
Before == build_file_structure(Slice(file_urls, 1, done_urls - 1))

\* the entries of a dict strictly beneath a path
Beneath(tree, path) == { n \in tree : IsPrefix(path, n.path) /\ n.path # path }

\* the entries where the URL is the value of a key named as its last segment
LeavesOf(tree, url) ==
    { n \in tree : n.leaf /\ n.url = url /\ Last(n.path) = Last(PathParts(url)) }

\* C12: when the path of the URL inserted is that of a directory of the
\* dict, the key becomes a leaf with the URL as its value, what the
\* directory held is gone and the rest of the dict is as it was; wherever
\* the walk of an inserted URL ends, its last segment is a leaf with the
\* URL as value and nothing beneath it; and the dict is a function of the
\* list of URLs gone through, in their order.
C12_FileOverDirectory ==
    (pc = "build_file_structure" /\ done_urls > 0) =>
        /\ Dir(PathParts(file_urls[done_urls])) \in Before =>
               structure = (Before \ ({ Dir(PathParts(file_urls[done_urls])) }
                               \cup Beneath(Before, PathParts(file_urls[done_urls]))))
                           \cup { Leaf(PathParts(file_urls[done_urls]),
                                       file_urls[done_urls]) }
        /\ Len(PathParts(file_urls[done_urls])) > 0 =>
               \E n \in LeavesOf(structure, file_urls[done_urls]) :
                   /\ Beneath(structure, n.path) = {}
                   /\ Dir(n.path) \notin structure
        /\ structure = build_file_structure(Slice(file_urls, 1, done_urls))

\* a URL was inserted whose path was that of a directory that held entries
C12_Witness ==
    /\ pc = "build_file_structure"
    /\ done_urls > 1
    /\ Dir(PathParts(file_urls[done_urls])) \in Before
    /\ Beneath(Before, PathParts(file_urls[done_urls])) # {}
    /\ Leaf(PathParts(file_urls[done_urls]), file_urls[done_urls]) \in structure

(***************************************************************************)
(* Download-all: the order of the fetches and of the archive writes        *)
(***************************************************************************)
\* the place of a category in the order of the four loops
CatIndex(cat) == CHOOSE c \in DOMAIN Categories : Categories[c] = cat

\* the entries of a log or of an archive follow the order of the loops
InLoopOrder(entries) ==
    \A i, j \in DOMAIN entries :
        i < j => CatIndex(entries[i].cat) <= CatIndex(entries[j].cat)

\* every asset fetched so far is written: no write is pending
NothingPending ==
    Len(zip_file) = 1 + Cardinality({ i \in DOMAIN fetched : fetched[i].ok })

\* C13: in one download-all call index.html is in the archive before the
\* first asset fetch is attempted; fetches and writes go by category in
\* the order css, js, images, others; when a fetch begins every asset
\* fetched before it is written, and a step writes at most one entry, that
\* of the asset it fetched, at the end of the archive.
C13_SingleWriterInOrder ==
    /\ [](request.op = "download_all" =>
              /\ InLoopOrder(fetched)
              /\ InLoopOrder(Slice(zip_file, 2, Len(zip_file)))
              /\ Len(fetched) > 0 => NothingPending)
    /\ [][(request.op = "download_all" /\ fetched' # fetched) =>
              /\ Len(zip_file) >= 1
              /\ zip_file[1].name = IndexName
              /\ NothingPending
              /\ Len(fetched') = Len(fetched) + 1
              /\ Slice(fetched', 1, Len(fetched)) = fetched
              /\ IF Last(fetched').ok
                 THEN /\ Len(zip_file') = Len(zip_file) + 1
                      /\ Slice(zip_file', 1, Len(zip_file)) = zip_file
                      /\ Last(zip_file').url = Last(fetched').url
                      /\ Last(zip_file').cat = Last(fetched').cat
                 ELSE zip_file' = zip_file]_vars
    /\ [][(request.op = "download_all" /\ zip_file' # zip_file) =>
              \/ fetched' # fetched
              \/ /\ zip_file = <<>>
                 /\ fetched' = <<>>
                 /\ Len(zip_file') = 1
                 /\ zip_file'[1].name = IndexName]_vars

\* a download-all that ended with fetches in two categories, a failed
\* fetch among them, and several assets written
C13_Witness ==
    /\ DownloadAllDone
    /\ response.status = 200
    /\ \E i, j \in DOMAIN fetched : CatIndex(fetched[i].cat) < CatIndex(fetched[j].cat)
    /\ \E i \in DOMAIN fetched : ~fetched[i].ok
    /\ Len(zip_file) >= 3
====
